---- MODULE Spec2Model ----
(***************************************************************************)
(* Deployment-progress state machine of compass/db/models.py: the state    *)
(* records of Host, ClusterHost and Cluster (StateMixin and its three      *)
(* subclasses), the update() cascades between them and the flags that gate *)
(* re-installation.                                                         *)
(*                                                                         *)
(* Percentages are Python floats in the source.  They are modelled as      *)
(* exact fractions <<numerator, denominator>> in lowest terms, so that     *)
(* completed_hosts / total_hosts and the comparison with 1.0 are exact.    *)
(***************************************************************************)
EXTENDS Integers, Sequences, FiniteSets, TLC

VARIABLES
    \* ---- one detached StateMixin record, for the rules of StateMixin.update
    input,      \* the record's fields before the first update() call
    rec,        \* the record's fields now
    first,      \* the record's fields after the first update() call
    calls,      \* number of update() calls made on the record
    \* ---- the entity graph
    clusterhosts,                 \* set of <<cluster, host>>: the ClusterHost rows
    hostState,                    \* Host.state          (HostState row per host)
    clusterhostState,             \* ClusterHost.state   (ClusterHostState row)
    clusterState,                 \* Cluster.state       (ClusterState row)
    reinstall_os,                 \* Host.reinstall_os
    host_config_validated,        \* Host.config_validated
    clusterhost_config_validated, \* ClusterHost.config_validated
    reinstall_distributed_system, \* Cluster.reinstall_distributed_system
    cluster_config_validated,     \* Cluster.config_validated
    distributed_system,           \* Cluster.distributed_system is set (truthy)
    cluster_os,                   \* Cluster.os is set (truthy)
    host_os_config,               \* Host.os_config
    clusterhost_package_config,   \* ClusterHost.package_config
    cluster_os_config,            \* Cluster.os_config
    cluster_package_config,       \* Cluster.package_config
    op,                           \* the last top-level operation and its target
    err,                          \* exception the last operation ended with, or "none"
    \* ---- queries and calls in progress
    returned,                     \* what the last state_dict() call returned
    stack                         \* frames of the update() calls in progress

recVars == <<input, rec, first, calls>>
graphVars == <<clusterhosts, hostState, clusterhostState, clusterState,
               reinstall_os, host_config_validated, clusterhost_config_validated,
               reinstall_distributed_system, cluster_config_validated,
               distributed_system, op, err>>
configVars == <<cluster_os, host_os_config, clusterhost_package_config,
                cluster_os_config, cluster_package_config>>
callVars == <<returned, stack>>
vars == <<input, rec, first, calls,
          clusterhosts, hostState, clusterhostState, clusterState,
          reinstall_os, host_config_validated, clusterhost_config_validated,
          reinstall_distributed_system, cluster_config_validated,
          distributed_system, cluster_os, host_os_config,
          clusterhost_package_config, cluster_os_config, cluster_package_config,
          op, err, returned, stack>>

---------------------------------------------------------------------------
\* Bounds of the model
NumHosts == 1
NumClusters == 2
MaxCalls == 2
MaxCount == 2

Hosts == 1..NumHosts
Clusters == 1..NumClusters

---------------------------------------------------------------------------
\* Column types of StateMixin

States == {"UNINITIALIZED", "INITIALIZED", "INSTALLING", "SUCCESSFUL", "ERROR"}
Severities == {"INFO", "WARNING", "ERROR"}

RECURSIVE GCD(_, _)
GCD(a, b) == IF b = 0 THEN a ELSE GCD(b, a % b)

\* the float n / d, d > 0, as a fraction in lowest terms
Frac(n, d) ==
    LET a == IF n < 0 THEN -n ELSE n
        g == GCD(a, d)
    IN  <<n \div g, d \div g>>

Zero == <<0, 1>>
Half == <<1, 2>>
One == <<1, 1>>

\* p >= 1.0
GeqOne(p) == p[1] >= p[2]
\* 0.0 <= p <= 1.0
InUnitRange(p) == p[1] >= 0 /\ p[1] <= p[2]

\* the column defaults of a freshly inserted state row
DefaultState ==
    [state |-> "UNINITIALIZED", percentage |-> Zero, message |-> "", severity |-> "INFO"]

---------------------------------------------------------------------------
\* StateMixin.update: the three rules, in the source's order, on the fields
\* of one record.  Works on any record that has the four StateMixin fields.

\* mutant: percentage is tested before severity in the INSTALLING rule
StateMixinUpdate_PercentageFirst(r) ==
    LET r1 == IF r.state \in {"UNINITIALIZED", "INITIALIZED"}
              THEN [r EXCEPT !.percentage = Zero, !.severity = "INFO", !.message = ""]
              ELSE r
        r2 == IF r1.state = "INSTALLING"
              THEN IF GeqOne(r1.percentage)
                   THEN [r1 EXCEPT !.state = "SUCCESSFUL", !.percentage = One]
                   ELSE IF r1.severity = "ERROR"
                        THEN [r1 EXCEPT !.state = "ERROR"]
                        ELSE r1
              ELSE r1
    IN  IF r2.state = "SUCCESSFUL" THEN [r2 EXCEPT !.percentage = One] ELSE r2

\* mutant: the SUCCESSFUL rule is missing and the INSTALLING rule does not
\* set the percentage
StateMixinUpdate_NoForce(r) ==
    LET r1 == IF r.state \in {"UNINITIALIZED", "INITIALIZED"}
              THEN [r EXCEPT !.percentage = Zero, !.severity = "INFO", !.message = ""]
              ELSE r
    IN  IF r1.state = "INSTALLING"
        THEN IF r1.severity = "ERROR"
             THEN [r1 EXCEPT !.state = "ERROR"]
             ELSE IF GeqOne(r1.percentage)
                  THEN [r1 EXCEPT !.state = "SUCCESSFUL"]
                  ELSE r1
        ELSE r1

\* mutant: the reset rule leaves the message alone
StateMixinUpdate_KeepMessage(r) ==
    LET r1 == IF r.state \in {"UNINITIALIZED", "INITIALIZED"}
              THEN [r EXCEPT !.percentage = Zero, !.severity = "INFO"]
              ELSE r
        r2 == IF r1.state = "INSTALLING"
              THEN IF r1.severity = "ERROR"
                   THEN [r1 EXCEPT !.state = "ERROR"]
                   ELSE IF GeqOne(r1.percentage)
                        THEN [r1 EXCEPT !.state = "SUCCESSFUL", !.percentage = One]
                        ELSE r1
              ELSE r1
    IN  IF r2.state = "SUCCESSFUL" THEN [r2 EXCEPT !.percentage = One] ELSE r2

\* mutant: the INSTALLING rule uses > instead of >=
StateMixinUpdate_StrictGreater(r) ==
    LET r1 == IF r.state \in {"UNINITIALIZED", "INITIALIZED"}
              THEN [r EXCEPT !.percentage = Zero, !.severity = "INFO", !.message = ""]
              ELSE r
        r2 == IF r1.state = "INSTALLING"
              THEN IF r1.severity = "ERROR"
                   THEN [r1 EXCEPT !.state = "ERROR"]
                   ELSE IF r1.percentage[1] > r1.percentage[2]
                        THEN [r1 EXCEPT !.state = "SUCCESSFUL", !.percentage = One]
                        ELSE r1
              ELSE r1
    IN  IF r2.state = "SUCCESSFUL" THEN [r2 EXCEPT !.percentage = One] ELSE r2

\* mutant: an ERROR record whose severity is no longer ERROR recovers to
\* INSTALLING by itself
StateMixinUpdate_AutoRecover(r) ==
    LET r1 == IF r.state \in {"UNINITIALIZED", "INITIALIZED"}
              THEN [r EXCEPT !.percentage = Zero, !.severity = "INFO", !.message = ""]
              ELSE r
        r2 == IF r1.state = "INSTALLING"
              THEN IF r1.severity = "ERROR"
                   THEN [r1 EXCEPT !.state = "ERROR"]
                   ELSE IF GeqOne(r1.percentage)
                        THEN [r1 EXCEPT !.state = "SUCCESSFUL", !.percentage = One]
                        ELSE r1
              ELSE IF r1.state = "ERROR" /\ r1.severity # "ERROR"
                   THEN [r1 EXCEPT !.state = "INSTALLING"]
                   ELSE r1
    IN  IF r2.state = "SUCCESSFUL" THEN [r2 EXCEPT !.percentage = One] ELSE r2

\* mutant: the INSTALLING rule runs after the SUCCESSFUL rule, and a finished
\* record is stepped from INSTALLING to SUCCESSFUL only on the next call
StateMixinUpdate_TwoPass(r) ==
    LET r1 == IF r.state \in {"UNINITIALIZED", "INITIALIZED"}
              THEN [r EXCEPT !.percentage = Zero, !.severity = "INFO", !.message = ""]
              ELSE r
        r2 == IF r1.state = "SUCCESSFUL" THEN [r1 EXCEPT !.percentage = One] ELSE r1
    IN  IF r2.state = "INSTALLING"
        THEN IF r2.severity = "ERROR"
             THEN [r2 EXCEPT !.state = "ERROR"]
             ELSE IF GeqOne(r2.percentage)
                  THEN IF r2.percentage = One
                       THEN [r2 EXCEPT !.state = "SUCCESSFUL"]
                       ELSE [r2 EXCEPT !.percentage = One]
                  ELSE r2
        ELSE r2

StateMixinUpdate(r) ==
    LET r1 == IF r.state \in {"UNINITIALIZED", "INITIALIZED"}
              THEN [r EXCEPT !.percentage = Zero, !.severity = "INFO", !.message = ""]
              ELSE r
        r2 == IF r1.state = "INSTALLING"
              THEN IF r1.severity = "ERROR"
                   THEN [r1 EXCEPT !.state = "ERROR"]
                   ELSE IF GeqOne(r1.percentage)
                        THEN [r1 EXCEPT !.state = "SUCCESSFUL", !.percentage = One]
                        ELSE r1
              ELSE r1
    IN  IF r2.state = "SUCCESSFUL" THEN [r2 EXCEPT !.percentage = One] ELSE r2

---------------------------------------------------------------------------
\* Python values that the update() methods compare: a str, or a mapped row
\* object (what a relationship attribute such as host.state evaluates to).
\* The mapped classes define no __eq__, so a row equals only itself and
\* never a str; `x in [...]` is true iff x equals an element of the list.

PyStr(s) == [type |-> "str", str |-> s, id |-> <<>>]
PyRow(cls, id) == [type |-> cls, str |-> "", id |-> id]
PyEq(x, y) ==
    IF x.type = "str" /\ y.type = "str"
    THEN x.str = y.str
    ELSE x.type = y.type /\ x.id = y.id
PyIn(x, strs) == \E s \in strs : PyEq(x, PyStr(s))

---------------------------------------------------------------------------
\* The rows an update() cascade reads and writes, as one value, so that a
\* method is an operator from the fields before the call to the fields after
\* it.  err is the exception in flight: once set, the rest of every method
\* on the call stack is skipped and the assignments already made stay on the
\* in-memory objects.

World ==
    [hs |-> hostState, chs |-> clusterhostState, cs |-> clusterState,
     ros |-> reinstall_os, rds |-> reinstall_distributed_system, err |-> "none"]

Ok(w) == w.err = "none"
Raise(w, e) == [w EXCEPT !.err = e]

\* the column defaults of a freshly inserted cluster_state row
DefaultClusterState ==
    [state |-> "UNINITIALIZED", percentage |-> Zero, message |-> "", severity |-> "INFO",
     total_hosts |-> 0, installing_hosts |-> 0, completed_hosts |-> 0, failed_hosts |-> 0]

\* ClusterHost rows in primary-key order (a relationship collection is
\* loaded and iterated in that order)
Before(a, b) == a[1] < b[1] \/ (a[1] = b[1] /\ a[2] < b[2])
RECURSIVE InOrder(_)
InOrder(S) ==
    IF S = {} THEN <<>>
    ELSE LET m == CHOOSE x \in S : \A y \in S : x = y \/ Before(x, y)
         IN  <<m>> \o InOrder(S \ {m})

\* Host.clusterhosts and Cluster.clusterhosts
HostClusterhosts(h) == InOrder({ch \in clusterhosts : ch[2] = h})
ClusterClusterhosts(c) == InOrder({ch \in clusterhosts : ch[1] = c})

---------------------------------------------------------------------------
\* ClusterHostState.update.  self.host is the backref of ClusterHost.state,
\* i.e. the ClusterHost row, so host_state = self.host.state is this very
\* ClusterHostState row (not the HostState of the owning Host), and
\* host_state.update() is this method again.

\* mutant: host_state is the HostState row of the owning Host, and the
\* membership's state is copied onto it whatever the Host's state is
ClusterHostStateUpdate_PromoteAlways(w, ch) ==
    LET self == w.chs[ch]
        w1 == IF self.state \in {"INITIALIZED", "INSTALLING"}
              THEN [w EXCEPT !.hs[ch[2]].state = self.state]
              ELSE w
    IN  [w1 EXCEPT !.chs[ch] = StateMixinUpdate(@)]

RECURSIVE ClusterHostStateUpdate(_, _)
ClusterHostStateUpdate(w, ch) ==
    LET self == w.chs[ch]
        host_state == w.chs[ch]
        w1 == IF self.state = "INITIALIZED"
              THEN IF host_state.state \in {"UNINITIALIZED"}
                   THEN ClusterHostStateUpdate(
                            [w EXCEPT !.chs[ch].state = "INITIALIZED"], ch)
                   ELSE w
              ELSE IF self.state = "INSTALLING"
                   THEN IF host_state.state \in {"UNINITIALIZED", "INITIALIZED"}
                        THEN ClusterHostStateUpdate(
                                 [w EXCEPT !.chs[ch].state = "INSTALLING"], ch)
                        ELSE w
                   ELSE w
    IN  IF Ok(w1) THEN [w1 EXCEPT !.chs[ch] = StateMixinUpdate(@)] ELSE w1

\* The loop of HostState.update over host.clusterhosts.  clusterhost.state is
\* the ClusterHostState row, which is compared with the strs of `from`.
\* `clusterhost.state = to` would assign a str to the relationship
\* attribute, which SQLAlchemy refuses with an AttributeError.
RECURSIVE CascadeClusterhosts(_, _, _, _)
CascadeClusterhosts(w, seq, from, to) ==
    IF seq = <<>> \/ ~Ok(w) THEN w
    ELSE LET clusterhost == Head(seq)
             w1 == IF PyIn(PyRow("ClusterHostState", clusterhost), from)
                   THEN Raise(w, "AttributeError")
                   ELSE w
         IN  CascadeClusterhosts(w1, Tail(seq), from, to)

\* mutant: the INSTALLING branch leaves reinstall_os alone
HostStateUpdate_KeepFlag(w, h) ==
    LET self == w.hs[h]
        w1 == IF self.state = "INSTALLING"
              THEN CascadeClusterhosts(w, HostClusterhosts(h),
                                       {"SUCCESSFUL", "ERROR"}, "INSTALLING")
              ELSE IF self.state = "UNINITIALIZED"
                   THEN CascadeClusterhosts(w, HostClusterhosts(h),
                            {"INITIALIZED", "INSTALLING", "SUCCESSFUL", "ERROR"},
                            "UNINITIALIZED")
                   ELSE IF self.state = "INITIALIZED"
                        THEN CascadeClusterhosts(w, HostClusterhosts(h),
                                 {"INSTALLING", "SUCCESSFUL", "ERROR"}, "INITIALIZED")
                        ELSE w
    IN  IF Ok(w1) THEN [w1 EXCEPT !.hs[h] = StateMixinUpdate(@)] ELSE w1

\* HostState.update
HostStateUpdate(w, h) ==
    LET self == w.hs[h]
        w1 == IF self.state = "INSTALLING"
              THEN CascadeClusterhosts([w EXCEPT !.ros[h] = FALSE], HostClusterhosts(h),
                                       {"SUCCESSFUL", "ERROR"}, "INSTALLING")
              ELSE IF self.state = "UNINITIALIZED"
                   THEN CascadeClusterhosts(w, HostClusterhosts(h),
                            {"INITIALIZED", "INSTALLING", "SUCCESSFUL", "ERROR"},
                            "UNINITIALIZED")
                   ELSE IF self.state = "INITIALIZED"
                        THEN CascadeClusterhosts(w, HostClusterhosts(h),
                                 {"INSTALLING", "SUCCESSFUL", "ERROR"}, "INITIALIZED")
                        ELSE w
    IN  IF Ok(w1) THEN [w1 EXCEPT !.hs[h] = StateMixinUpdate(@)] ELSE w1

\* Host.update: self.state is the HostState row.  (The os_name bookkeeping
\* that follows touches no field of the state machine.)
HostUpdate(w, h) ==
    IF w.ros[h]
    THEN IF PyIn(PyRow("HostState", h), {"SUCCESSFUL", "ERROR"})
         THEN HostStateUpdate(
                  [w EXCEPT !.hs[h].state =
                      IF host_config_validated[h] THEN "INITIALIZED"
                                                  ELSE "UNINITIALIZED"], h)
         ELSE w
    ELSE w

\* mutant: the gate compares the state column, self.state.state
ClusterHostUpdate_StateColumn(w, ch) ==
    IF w.ros[ch[2]]
    THEN IF w.chs[ch].state \in {"SUCCESSFUL", "ERROR"}
         THEN ClusterHostStateUpdate(
                  [w EXCEPT !.chs[ch].state =
                      IF clusterhost_config_validated[ch] THEN "INITIALIZED"
                                                          ELSE "UNINITIALIZED"], ch)
         ELSE w
    ELSE w

\* ClusterHost.update: self.state is the ClusterHostState row
ClusterHostUpdate(w, ch) ==
    IF w.ros[ch[2]]
    THEN IF PyIn(PyRow("ClusterHostState", ch), {"SUCCESSFUL", "ERROR"})
         THEN ClusterHostStateUpdate(
                  [w EXCEPT !.chs[ch].state =
                      IF clusterhost_config_validated[ch] THEN "INITIALIZED"
                                                          ELSE "UNINITIALIZED"], ch)
         ELSE w
    ELSE w

---------------------------------------------------------------------------
\* ClusterState.update

\* The counting loops of ClusterState.update.  by_host is the branch taken
\* when the cluster has no distributed system: the key is then the state of
\* the membership's Host, otherwise the membership's own state.  The counter
\* incremented for INSTALLING is spelled intsalling_hosts, which is no
\* attribute of the row: reading it raises AttributeError.
RECURSIVE CountClusterhosts(_, _, _, _)
CountClusterhosts(w, c, seq, by_host) ==
    IF seq = <<>> \/ ~Ok(w) THEN w
    ELSE LET clusterhost == Head(seq)
             key == IF by_host THEN w.hs[clusterhost[2]].state
                               ELSE w.chs[clusterhost].state
             w1 == IF key = "INSTALLING"
                   THEN IF "intsalling_hosts" \in DOMAIN w.cs[c]
                        THEN [w EXCEPT !.cs[c]["intsalling_hosts"] = @ + 1]
                        ELSE Raise(w, "AttributeError")
                   ELSE IF key = "ERROR"
                        THEN [w EXCEPT !.cs[c].failed_hosts = @ + 1]
                        ELSE IF key = "SUCCESSFUL"
                             THEN [w EXCEPT !.cs[c].completed_hosts = @ + 1]
                             ELSE w
         IN  CountClusterhosts(w1, c, Tail(seq), by_host)

\* self.message = '...%s...%s...%s...$s' % (total, completed, intsalling,
\* failed): building the argument tuple reads intsalling_hosts; with that
\* attribute present the format has three %s for four arguments (TypeError).
ComposeMessage(w, c) ==
    IF "intsalling_hosts" \in DOMAIN w.cs[c]
    THEN Raise(w, "TypeError")
    ELSE Raise(w, "AttributeError")

\* mutant: in UNINITIALIZED / INITIALIZED only installing_hosts is reset
ClusterStateUpdate_KeepCounts(w, c) ==
    LET clusterhosts_ == ClusterClusterhosts(c)
        w0 == [w EXCEPT !.cs[c].total_hosts = Len(clusterhosts_)]
        w1 == IF w0.cs[c].state \in {"UNINITIALIZED", "INITIALIZED"}
              THEN [w0 EXCEPT !.cs[c].installing_hosts = 0]
              ELSE w0
        w2 == IF w1.cs[c].state = "INSTALLING"
              THEN LET a == [w1 EXCEPT !.rds[c] = FALSE]
                       b == CountClusterhosts(a, c, clusterhosts_, ~distributed_system[c])
                       d == IF Ok(b) /\ b.cs[c].total_hosts # 0
                            THEN [b EXCEPT !.cs[c].percentage =
                                     Frac(b.cs[c].completed_hosts, b.cs[c].total_hosts)]
                            ELSE b
                       e == IF Ok(d) THEN ComposeMessage(d, c) ELSE d
                   IN  IF Ok(e) /\ e.cs[c].failed_hosts # 0
                       THEN [e EXCEPT !.cs[c].severity = "ERROR"]
                       ELSE e
              ELSE w1
    IN  IF Ok(w2) THEN [w2 EXCEPT !.cs[c] = StateMixinUpdate(@)] ELSE w2

\* mutant: the INSTALLING branch leaves reinstall_distributed_system alone
ClusterStateUpdate_KeepFlag(w, c) ==
    LET clusterhosts_ == ClusterClusterhosts(c)
        w0 == [w EXCEPT !.cs[c].total_hosts = Len(clusterhosts_)]
        w1 == IF w0.cs[c].state \in {"UNINITIALIZED", "INITIALIZED"}
              THEN [w0 EXCEPT !.cs[c].installing_hosts = 0,
                              !.cs[c].failed_hosts = 0,
                              !.cs[c].completed_hosts = 0]
              ELSE w0
        w2 == IF w1.cs[c].state = "INSTALLING"
              THEN LET a == w1
                       b == CountClusterhosts(a, c, clusterhosts_, ~distributed_system[c])
                       d == IF Ok(b) /\ b.cs[c].total_hosts # 0
                            THEN [b EXCEPT !.cs[c].percentage =
                                     Frac(b.cs[c].completed_hosts, b.cs[c].total_hosts)]
                            ELSE b
                       e == IF Ok(d) THEN ComposeMessage(d, c) ELSE d
                   IN  IF Ok(e) /\ e.cs[c].failed_hosts # 0
                       THEN [e EXCEPT !.cs[c].severity = "ERROR"]
                       ELSE e
              ELSE w1
    IN  IF Ok(w2) THEN [w2 EXCEPT !.cs[c] = StateMixinUpdate(@)] ELSE w2

ClusterStateUpdate(w, c) ==
    LET clusterhosts_ == ClusterClusterhosts(c)
        w0 == [w EXCEPT !.cs[c].total_hosts = Len(clusterhosts_)]
        w1 == IF w0.cs[c].state \in {"UNINITIALIZED", "INITIALIZED"}
              THEN [w0 EXCEPT !.cs[c].installing_hosts = 0,
                              !.cs[c].failed_hosts = 0,
                              !.cs[c].completed_hosts = 0]
              ELSE w0
        w2 == IF w1.cs[c].state = "INSTALLING"
              THEN LET a == [w1 EXCEPT !.rds[c] = FALSE]
                       b == CountClusterhosts(a, c, clusterhosts_, ~distributed_system[c])
                       d == IF Ok(b) /\ b.cs[c].total_hosts # 0
                            THEN [b EXCEPT !.cs[c].percentage =
                                     Frac(b.cs[c].completed_hosts, b.cs[c].total_hosts)]
                            ELSE b
                       e == IF Ok(d) THEN ComposeMessage(d, c) ELSE d
                   IN  IF Ok(e) /\ e.cs[c].failed_hosts # 0
                       THEN [e EXCEPT !.cs[c].severity = "ERROR"]
                       ELSE e
              ELSE w1
    IN  IF Ok(w2) THEN [w2 EXCEPT !.cs[c] = StateMixinUpdate(@)] ELSE w2

\* Cluster.update: self.state is the ClusterState row.  (The bookkeeping that
\* follows copies names from the cluster's os and adapter; the adapter, and
\* with it distributed_system, is fixed per cluster here.)
ClusterUpdate(w, c) ==
    IF w.rds[c]
    THEN IF PyIn(PyRow("ClusterState", c), {"SUCCESSFUL", "ERROR"})
         THEN ClusterStateUpdate(
                  [w EXCEPT !.cs[c].state =
                      IF cluster_config_validated[c] THEN "INITIALIZED"
                                                     ELSE "UNINITIALIZED"], c)
         ELSE w
    ELSE w

---------------------------------------------------------------------------
\* Config blobs (the JSONEncoded columns os_config and package_config): a
\* Python dict from str keys to values, a value being either a scalar or a
\* dict again.

EmptyBlob == [k \in {} |-> 0]
Leaf(n) == [isMap |-> FALSE, val |-> n, sub |-> EmptyBlob]
Node(b) == [isMap |-> TRUE, val |-> 0, sub |-> b]

\* d = dict(lhs); d.update(rhs)
DictUpdate(lhs, rhs) ==
    [k \in DOMAIN lhs \cup DOMAIN rhs |->
        IF k \in DOMAIN rhs THEN rhs[k] ELSE lhs[k]]

\* util.merge_dict(lhs, rhs): where both sides hold a dict under a key the
\* two are merged, anywhere else the value of rhs replaces that of lhs
RECURSIVE MergeDict(_, _)
MergeDict(lhs, rhs) ==
    [k \in DOMAIN lhs \cup DOMAIN rhs |->
        IF k \notin DOMAIN rhs THEN lhs[k]
        ELSE IF k \notin DOMAIN lhs THEN rhs[k]
        ELSE IF lhs[k].isMap /\ rhs[k].isMap
             THEN Node(MergeDict(lhs[k].sub, rhs[k].sub))
             ELSE rhs[k]]

\* mutant: the patch setter overwrites top-level keys like the put setter
PatchedConfig_Shallow(config, value) == DictUpdate(config, value)

\* the patched_*_config setters: util.merge_dict(dict(self.x_config), value)
PatchedConfig(config, value) == MergeDict(config, value)

\* mutant: the put setter merges like the patch setter
PutConfig_Deep(config, value) == MergeDict(config, value)

\* the put_*_config setters: x_config = dict(self.x_config);
\* x_config.update(value)
PutConfig(config, value) == DictUpdate(config, value)

---------------------------------------------------------------------------
\* Top-level operations.  Each is one externally triggered mutation followed
\* by the update() of the object it touched, executed as one step.

\* what a progress report may carry (percentage within [0, 1])
Reports ==
    { [percentage |-> Half, message |-> "installing", severity |-> "INFO"],
      [percentage |-> One, message |-> "done", severity |-> "INFO"],
      [percentage |-> Half, message |-> "failed", severity |-> "ERROR"] }

Reported(r, rep) ==
    [r EXCEPT !.percentage = rep.percentage, !.message = rep.message,
              !.severity = rep.severity]

\* the cap on the cluster counters, which the source lets grow without limit
CountersCapped(w) ==
    \A c \in Clusters :
        /\ w.cs[c].completed_hosts <= MaxCount
        /\ w.cs[c].failed_hosts <= MaxCount

\* the record of an operation: its name and the cluster and host it
\* addresses (0 where it addresses none)
Op(name, c, h) == [name |-> name, cluster |-> c, host |-> h]

\* write the rows of w back, and record the operation
Commit(w, o) ==
    /\ op' = o
    /\ hostState' = w.hs
    /\ clusterhostState' = w.chs
    /\ clusterState' = w.cs
    /\ reinstall_os' = w.ros
    /\ reinstall_distributed_system' = w.rds
    /\ err' = w.err

\* ClusterHost.__init__: a new membership with its own state row
AddClusterHost(c, h) ==
    /\ <<c, h>> \notin clusterhosts
    /\ clusterhosts' = clusterhosts \cup {<<c, h>>}
    /\ clusterhostState' =
           [x \in clusterhosts \cup {<<c, h>>} |->
               IF x = <<c, h>> THEN DefaultState ELSE clusterhostState[x]]
    /\ clusterhost_config_validated' =
           [x \in clusterhosts \cup {<<c, h>>} |->
               IF x = <<c, h>> THEN FALSE ELSE clusterhost_config_validated[x]]
    /\ op' = Op("AddClusterHost", c, h)
    /\ err' = "none"
    /\ clusterhost_package_config' =
           [x \in clusterhosts \cup {<<c, h>>} |->
               IF x = <<c, h>> THEN EmptyBlob ELSE clusterhost_package_config[x]]
    /\ UNCHANGED <<hostState, clusterState, reinstall_os, host_config_validated,
                   reinstall_distributed_system, cluster_config_validated,
                   distributed_system>>
    /\ UNCHANGED <<cluster_os, host_os_config, cluster_os_config,
                   cluster_package_config>>
    /\ UNCHANGED recVars
    /\ UNCHANGED callVars

\* host.state.state = s; host.state.update()
SetHostState(h, s) ==
    /\ Commit(HostStateUpdate([World EXCEPT !.hs[h].state = s], h),
              Op("SetHostState", 0, h))
    /\ UNCHANGED <<clusterhosts, host_config_validated, clusterhost_config_validated,
                   cluster_config_validated, distributed_system>>
    /\ UNCHANGED recVars
    /\ UNCHANGED callVars
    /\ UNCHANGED configVars

\* report_progress on a Host: the fields are set, then host.state.update()
ReportHostProgress(h, rep) ==
    /\ Commit(HostStateUpdate([World EXCEPT !.hs[h] = Reported(@, rep)], h),
              Op("ReportHostProgress", 0, h))
    /\ UNCHANGED <<clusterhosts, host_config_validated, clusterhost_config_validated,
                   cluster_config_validated, distributed_system>>
    /\ UNCHANGED recVars
    /\ UNCHANGED callVars
    /\ UNCHANGED configVars

\* clusterhost.state.state = s; clusterhost.state.update()
SetClusterHostState(ch, s) ==
    /\ ch \in clusterhosts
    /\ Commit(ClusterHostStateUpdate([World EXCEPT !.chs[ch].state = s], ch),
              Op("SetClusterHostState", ch[1], ch[2]))
    /\ UNCHANGED <<clusterhosts, host_config_validated, clusterhost_config_validated,
                   cluster_config_validated, distributed_system>>
    /\ UNCHANGED recVars
    /\ UNCHANGED callVars
    /\ UNCHANGED configVars

\* report_progress on a membership
ReportClusterHostProgress(ch, rep) ==
    /\ ch \in clusterhosts
    /\ Commit(ClusterHostStateUpdate([World EXCEPT !.chs[ch] = Reported(@, rep)], ch),
              Op("ReportClusterHostProgress", ch[1], ch[2]))
    /\ UNCHANGED <<clusterhosts, host_config_validated, clusterhost_config_validated,
                   cluster_config_validated, distributed_system>>
    /\ UNCHANGED recVars
    /\ UNCHANGED callVars
    /\ UNCHANGED configVars

\* request_reinstall on a Host: host.reinstall_os = True; host.update()
RequestReinstallHost(h) ==
    /\ Commit(HostUpdate([World EXCEPT !.ros[h] = TRUE], h),
              Op("RequestReinstallHost", 0, h))
    /\ UNCHANGED <<clusterhosts, host_config_validated, clusterhost_config_validated,
                   cluster_config_validated, distributed_system>>
    /\ UNCHANGED recVars
    /\ UNCHANGED callVars
    /\ UNCHANGED configVars

\* host.update() after an edit that touches none of the modelled fields
UpdateHost(h) ==
    /\ Commit(HostUpdate(World, h), Op("UpdateHost", 0, h))
    /\ UNCHANGED <<clusterhosts, host_config_validated, clusterhost_config_validated,
                   cluster_config_validated, distributed_system>>
    /\ UNCHANGED recVars
    /\ UNCHANGED callVars
    /\ UNCHANGED configVars

\* clusterhost.update()
UpdateClusterHost(ch) ==
    /\ ch \in clusterhosts
    /\ Commit(ClusterHostUpdate(World, ch), Op("UpdateClusterHost", ch[1], ch[2]))
    /\ UNCHANGED <<clusterhosts, host_config_validated, clusterhost_config_validated,
                   cluster_config_validated, distributed_system>>
    /\ UNCHANGED recVars
    /\ UNCHANGED callVars
    /\ UNCHANGED configVars

\* mark_validated on a Host
MarkHostValidated(h) ==
    /\ ~host_config_validated[h]
    /\ host_config_validated' = [host_config_validated EXCEPT ![h] = TRUE]
    /\ op' = Op("MarkHostValidated", 0, h)
    /\ err' = "none"
    /\ UNCHANGED <<clusterhosts, hostState, clusterhostState, clusterState,
                   reinstall_os, clusterhost_config_validated,
                   reinstall_distributed_system, cluster_config_validated,
                   distributed_system>>
    /\ UNCHANGED recVars
    /\ UNCHANGED callVars
    /\ UNCHANGED configVars

\* mark_validated on a membership
MarkClusterHostValidated(ch) ==
    /\ ch \in clusterhosts
    /\ ~clusterhost_config_validated[ch]
    /\ clusterhost_config_validated' = [clusterhost_config_validated EXCEPT ![ch] = TRUE]
    /\ op' = Op("MarkClusterHostValidated", ch[1], ch[2])
    /\ err' = "none"
    /\ UNCHANGED <<clusterhosts, hostState, clusterhostState, clusterState,
                   reinstall_os, host_config_validated,
                   reinstall_distributed_system, cluster_config_validated,
                   distributed_system>>
    /\ UNCHANGED recVars
    /\ UNCHANGED callVars
    /\ UNCHANGED configVars

\* cluster.state.state = s; cluster.state.update()
SetClusterState(c, s) ==
    LET w == ClusterStateUpdate([World EXCEPT !.cs[c].state = s], c)
    IN  /\ CountersCapped(w)
        /\ Commit(w, Op("SetClusterState", c, 0))
        /\ UNCHANGED <<clusterhosts, host_config_validated,
                       clusterhost_config_validated, cluster_config_validated,
                       distributed_system>>
        /\ UNCHANGED recVars
        /\ UNCHANGED callVars
        /\ UNCHANGED configVars

\* report_progress on a Cluster
ReportClusterProgress(c, rep) ==
    LET w == ClusterStateUpdate([World EXCEPT !.cs[c] = Reported(@, rep)], c)
    IN  /\ CountersCapped(w)
        /\ Commit(w, Op("ReportClusterProgress", c, 0))
        /\ UNCHANGED <<clusterhosts, host_config_validated,
                       clusterhost_config_validated, cluster_config_validated,
                       distributed_system>>
        /\ UNCHANGED recVars
        /\ UNCHANGED callVars
        /\ UNCHANGED configVars

\* The second half of Cluster.update, reached unless the gating raised: a
\* cluster without an os gets os_config = {}.  (The names copied from the os
\* and the adapter are no part of the model.)
ClusterOsConfigAfterUpdate(w, c) ==
    IF Ok(w) /\ ~cluster_os[c] THEN EmptyBlob ELSE cluster_os_config[c]

\* request_reinstall on a Cluster: the flag is set, then cluster.update()
RequestReinstallCluster(c) ==
    LET w == ClusterUpdate([World EXCEPT !.rds[c] = TRUE], c)
    IN  /\ CountersCapped(w)
        /\ Commit(w, Op("RequestReinstallCluster", c, 0))
        /\ cluster_os_config' =
               [cluster_os_config EXCEPT ![c] = ClusterOsConfigAfterUpdate(w, c)]
        /\ UNCHANGED <<clusterhosts, host_config_validated,
                       clusterhost_config_validated, cluster_config_validated,
                       distributed_system>>
        /\ UNCHANGED <<cluster_os, host_os_config, clusterhost_package_config,
                       cluster_package_config>>
        /\ UNCHANGED recVars
        /\ UNCHANGED callVars

\* cluster.update() after an edit that touches none of the modelled fields
UpdateCluster(c) ==
    LET w == ClusterUpdate(World, c)
    IN  /\ CountersCapped(w)
        /\ Commit(w, Op("UpdateCluster", c, 0))
        /\ cluster_os_config' =
               [cluster_os_config EXCEPT ![c] = ClusterOsConfigAfterUpdate(w, c)]
        /\ UNCHANGED <<clusterhosts, host_config_validated,
                       clusterhost_config_validated, cluster_config_validated,
                       distributed_system>>
        /\ UNCHANGED <<cluster_os, host_os_config, clusterhost_package_config,
                       cluster_package_config>>
        /\ UNCHANGED recVars
        /\ UNCHANGED callVars

\* mark_validated on a Cluster
MarkClusterValidated(c) ==
    /\ ~cluster_config_validated[c]
    /\ cluster_config_validated' = [cluster_config_validated EXCEPT ![c] = TRUE]
    /\ op' = Op("MarkClusterValidated", c, 0)
    /\ err' = "none"
    /\ UNCHANGED <<clusterhosts, hostState, clusterhostState, clusterState,
                   reinstall_os, host_config_validated, clusterhost_config_validated,
                   reinstall_distributed_system, distributed_system>>
    /\ UNCHANGED recVars
    /\ UNCHANGED callVars
    /\ UNCHANGED configVars

---------------------------------------------------------------------------
\* Config writes: the property setters of Host, ClusterHost and Cluster.
\* Each is the setter alone; no update() is run by it.

\* the Host.patched_os_config setter
SetHostPatchedOsConfig(h, value) ==
    /\ host_os_config' = [host_os_config EXCEPT ![h] = PatchedConfig(@, value)]
    /\ host_config_validated' = [host_config_validated EXCEPT ![h] = FALSE]

\* the Host.put_os_config setter
SetHostPutOsConfig(h, value) ==
    /\ host_os_config' = [host_os_config EXCEPT ![h] = PutConfig(@, value)]
    /\ host_config_validated' = [host_config_validated EXCEPT ![h] = FALSE]

\* mutant: the flag is cleared only when the write changed the blob
PatchHostOsConfig_ClearIfChanged(h, value) ==
    /\ op' = Op("PatchHostOsConfig", 0, h)
    /\ host_os_config' = [host_os_config EXCEPT ![h] = PatchedConfig(@, value)]
    /\ host_config_validated' =
           [host_config_validated EXCEPT
               ![h] = @ /\ PatchedConfig(host_os_config[h], value) = host_os_config[h]]
    /\ err' = "none"
    /\ UNCHANGED <<clusterhosts, hostState, clusterhostState, clusterState,
                   reinstall_os, clusterhost_config_validated,
                   reinstall_distributed_system, cluster_config_validated,
                   distributed_system>>
    /\ UNCHANGED <<cluster_os, clusterhost_package_config, cluster_os_config,
                   cluster_package_config>>
    /\ UNCHANGED recVars
    /\ UNCHANGED callVars

\* host.patched_os_config = value
PatchHostOsConfig(h, value) ==
    /\ op' = Op("PatchHostOsConfig", 0, h)
    /\ SetHostPatchedOsConfig(h, value)
    /\ err' = "none"
    /\ UNCHANGED <<clusterhosts, hostState, clusterhostState, clusterState,
                   reinstall_os, clusterhost_config_validated,
                   reinstall_distributed_system, cluster_config_validated,
                   distributed_system>>
    /\ UNCHANGED <<cluster_os, clusterhost_package_config, cluster_os_config,
                   cluster_package_config>>
    /\ UNCHANGED recVars
    /\ UNCHANGED callVars

\* host.put_os_config = value
PutHostOsConfig(h, value) ==
    /\ op' = Op("PutHostOsConfig", 0, h)
    /\ SetHostPutOsConfig(h, value)
    /\ err' = "none"
    /\ UNCHANGED <<clusterhosts, hostState, clusterhostState, clusterState,
                   reinstall_os, clusterhost_config_validated,
                   reinstall_distributed_system, cluster_config_validated,
                   distributed_system>>
    /\ UNCHANGED <<cluster_os, clusterhost_package_config, cluster_os_config,
                   cluster_package_config>>
    /\ UNCHANGED recVars
    /\ UNCHANGED callVars

\* clusterhost.patched_os_config = value: handed to the Host's setter
PatchClusterHostOsConfig(ch, value) ==
    /\ op' = Op("PatchClusterHostOsConfig", ch[1], ch[2])
    /\ ch \in clusterhosts
    /\ SetHostPatchedOsConfig(ch[2], value)
    /\ err' = "none"
    /\ UNCHANGED <<clusterhosts, hostState, clusterhostState, clusterState,
                   reinstall_os, clusterhost_config_validated,
                   reinstall_distributed_system, cluster_config_validated,
                   distributed_system>>
    /\ UNCHANGED <<cluster_os, clusterhost_package_config, cluster_os_config,
                   cluster_package_config>>
    /\ UNCHANGED recVars
    /\ UNCHANGED callVars

\* clusterhost.put_os_config = value: handed to the Host's setter
PutClusterHostOsConfig(ch, value) ==
    /\ op' = Op("PutClusterHostOsConfig", ch[1], ch[2])
    /\ ch \in clusterhosts
    /\ SetHostPutOsConfig(ch[2], value)
    /\ err' = "none"
    /\ UNCHANGED <<clusterhosts, hostState, clusterhostState, clusterState,
                   reinstall_os, clusterhost_config_validated,
                   reinstall_distributed_system, cluster_config_validated,
                   distributed_system>>
    /\ UNCHANGED <<cluster_os, clusterhost_package_config, cluster_os_config,
                   cluster_package_config>>
    /\ UNCHANGED recVars
    /\ UNCHANGED callVars

\* mutant: a write to the membership's package config also invalidates the
\* Host's config
PatchClusterHostPackageConfig_InvalidatesHost(ch, value) ==
    /\ op' = Op("PatchClusterHostPackageConfig", ch[1], ch[2])
    /\ ch \in clusterhosts
    /\ clusterhost_package_config' =
           [clusterhost_package_config EXCEPT ![ch] = PatchedConfig(@, value)]
    /\ clusterhost_config_validated' = [clusterhost_config_validated EXCEPT ![ch] = FALSE]
    /\ host_config_validated' = [host_config_validated EXCEPT ![ch[2]] = FALSE]
    /\ err' = "none"
    /\ UNCHANGED <<clusterhosts, hostState, clusterhostState, clusterState,
                   reinstall_os, reinstall_distributed_system,
                   cluster_config_validated, distributed_system>>
    /\ UNCHANGED <<cluster_os, host_os_config, cluster_os_config,
                   cluster_package_config>>
    /\ UNCHANGED recVars
    /\ UNCHANGED callVars

\* clusterhost.patched_package_config = value
PatchClusterHostPackageConfig(ch, value) ==
    /\ op' = Op("PatchClusterHostPackageConfig", ch[1], ch[2])
    /\ ch \in clusterhosts
    /\ clusterhost_package_config' =
           [clusterhost_package_config EXCEPT ![ch] = PatchedConfig(@, value)]
    /\ clusterhost_config_validated' = [clusterhost_config_validated EXCEPT ![ch] = FALSE]
    /\ err' = "none"
    /\ UNCHANGED <<clusterhosts, hostState, clusterhostState, clusterState,
                   reinstall_os, host_config_validated,
                   reinstall_distributed_system, cluster_config_validated,
                   distributed_system>>
    /\ UNCHANGED <<cluster_os, host_os_config, cluster_os_config,
                   cluster_package_config>>
    /\ UNCHANGED recVars
    /\ UNCHANGED callVars

\* clusterhost.put_package_config = value
PutClusterHostPackageConfig(ch, value) ==
    /\ op' = Op("PutClusterHostPackageConfig", ch[1], ch[2])
    /\ ch \in clusterhosts
    /\ clusterhost_package_config' =
           [clusterhost_package_config EXCEPT ![ch] = PutConfig(@, value)]
    /\ clusterhost_config_validated' = [clusterhost_config_validated EXCEPT ![ch] = FALSE]
    /\ err' = "none"
    /\ UNCHANGED <<clusterhosts, hostState, clusterhostState, clusterState,
                   reinstall_os, host_config_validated,
                   reinstall_distributed_system, cluster_config_validated,
                   distributed_system>>
    /\ UNCHANGED <<cluster_os, host_os_config, cluster_os_config,
                   cluster_package_config>>
    /\ UNCHANGED recVars
    /\ UNCHANGED callVars

\* cluster.patched_os_config = value
PatchClusterOsConfig(c, value) ==
    /\ op' = Op("PatchClusterOsConfig", c, 0)
    /\ cluster_os_config' = [cluster_os_config EXCEPT ![c] = PatchedConfig(@, value)]
    /\ cluster_config_validated' = [cluster_config_validated EXCEPT ![c] = FALSE]
    /\ err' = "none"
    /\ UNCHANGED <<clusterhosts, hostState, clusterhostState, clusterState,
                   reinstall_os, host_config_validated, clusterhost_config_validated,
                   reinstall_distributed_system, distributed_system>>
    /\ UNCHANGED <<cluster_os, host_os_config, clusterhost_package_config,
                   cluster_package_config>>
    /\ UNCHANGED recVars
    /\ UNCHANGED callVars

\* cluster.put_os_config = value
PutClusterOsConfig(c, value) ==
    /\ op' = Op("PutClusterOsConfig", c, 0)
    /\ cluster_os_config' = [cluster_os_config EXCEPT ![c] = PutConfig(@, value)]
    /\ cluster_config_validated' = [cluster_config_validated EXCEPT ![c] = FALSE]
    /\ err' = "none"
    /\ UNCHANGED <<clusterhosts, hostState, clusterhostState, clusterState,
                   reinstall_os, host_config_validated, clusterhost_config_validated,
                   reinstall_distributed_system, distributed_system>>
    /\ UNCHANGED <<cluster_os, host_os_config, clusterhost_package_config,
                   cluster_package_config>>
    /\ UNCHANGED recVars
    /\ UNCHANGED callVars

\* cluster.patched_package_config = value
PatchClusterPackageConfig(c, value) ==
    /\ op' = Op("PatchClusterPackageConfig", c, 0)
    /\ cluster_package_config' =
           [cluster_package_config EXCEPT ![c] = PatchedConfig(@, value)]
    /\ cluster_config_validated' = [cluster_config_validated EXCEPT ![c] = FALSE]
    /\ err' = "none"
    /\ UNCHANGED <<clusterhosts, hostState, clusterhostState, clusterState,
                   reinstall_os, host_config_validated, clusterhost_config_validated,
                   reinstall_distributed_system, distributed_system>>
    /\ UNCHANGED <<cluster_os, host_os_config, clusterhost_package_config,
                   cluster_os_config>>
    /\ UNCHANGED recVars
    /\ UNCHANGED callVars

\* cluster.put_package_config = value
PutClusterPackageConfig(c, value) ==
    /\ op' = Op("PutClusterPackageConfig", c, 0)
    /\ cluster_package_config' =
           [cluster_package_config EXCEPT ![c] = PutConfig(@, value)]
    /\ cluster_config_validated' = [cluster_config_validated EXCEPT ![c] = FALSE]
    /\ err' = "none"
    /\ UNCHANGED <<clusterhosts, hostState, clusterhostState, clusterState,
                   reinstall_os, host_config_validated, clusterhost_config_validated,
                   reinstall_distributed_system, distributed_system>>
    /\ UNCHANGED <<cluster_os, host_os_config, clusterhost_package_config,
                   cluster_os_config>>
    /\ UNCHANGED recVars
    /\ UNCHANGED callVars

\* the list of the adapter's role names, as one opaque value
Roles == Leaf(0)

\* mutant: a cluster initialized from its adapter counts as validated
InitializeCluster_Validated(c, adapter) ==
    /\ op' = Op("InitializeCluster", c, 0)
    /\ adapter
    /\ cluster_package_config' =
           [cluster_package_config EXCEPT ![c] = PutConfig(@, [k \in {"roles"} |-> Roles])]
    /\ cluster_config_validated' = [cluster_config_validated EXCEPT ![c] = TRUE]
    /\ err' = "none"
    /\ UNCHANGED <<clusterhosts, hostState, clusterhostState, clusterState,
                   reinstall_os, host_config_validated, clusterhost_config_validated,
                   reinstall_distributed_system, distributed_system>>
    /\ UNCHANGED <<cluster_os, host_os_config, clusterhost_package_config,
                   cluster_os_config>>
    /\ UNCHANGED recVars
    /\ UNCHANGED callVars

\* Cluster.initialize: with an adapter, put_package_config = {'roles': [...]};
\* without one, nothing.  A cluster with a distributed system has an adapter.
InitializeCluster(c, adapter) ==
    /\ op' = Op("InitializeCluster", c, 0)
    /\ distributed_system[c] => adapter
    /\ IF adapter
       THEN /\ cluster_package_config' =
                   [cluster_package_config EXCEPT
                       ![c] = PutConfig(@, [k \in {"roles"} |-> Roles])]
            /\ cluster_config_validated' = [cluster_config_validated EXCEPT ![c] = FALSE]
       ELSE UNCHANGED <<cluster_package_config, cluster_config_validated>>
    /\ err' = "none"
    /\ UNCHANGED <<clusterhosts, hostState, clusterhostState, clusterState,
                   reinstall_os, host_config_validated, clusterhost_config_validated,
                   reinstall_distributed_system, distributed_system>>
    /\ UNCHANGED <<cluster_os, host_os_config, clusterhost_package_config,
                   cluster_os_config>>
    /\ UNCHANGED recVars
    /\ UNCHANGED callVars

---------------------------------------------------------------------------
\* State queries.  HelperMixin.to_dict copies every column that is not None
\* into a dict keyed by column name; for a state row these are id, state,
\* percentage, message and severity (and the two timestamps, which are no
\* part of the model).  The id of a host_state row is its host's id, the id
\* of a clusterhost_state row is its membership's id.

\* the primary key of the membership <<c, h>>
ClusterHostId(ch) == (ch[2] - 1) * NumClusters + ch[1]

ToDict(id, r) ==
    [id |-> id, state |-> r.state, percentage |-> r.percentage,
     message |-> r.message, severity |-> r.severity]

\* the value of `returned` before any query
NoDict == ToDict(0, DefaultState)

\* Host.state_dict
HostStateDict(h) == ToDict(h, hostState[h])

\* mutant: the membership's own record is returned whenever the cluster has
\* a distributed system, whatever the Host's state
ClusterHostStateDict_IgnoresHost(ch) ==
    IF ~distributed_system[ch[1]]
    THEN HostStateDict(ch[2])
    ELSE ToDict(ClusterHostId(ch), clusterhostState[ch])

\* ClusterHost.state_dict
ClusterHostStateDict(ch) ==
    LET cluster == ch[1]
        host == ch[2]
    IN  IF ~distributed_system[cluster] \/ hostState[host].state # "SUCCESSFUL"
        THEN HostStateDict(host)
        ELSE ToDict(ClusterHostId(ch), clusterhostState[ch])

\* get_state on a membership
GetClusterHostState(ch) ==
    /\ op' = Op("GetClusterHostState", ch[1], ch[2])
    /\ ch \in clusterhosts
    /\ stack = <<>>
    /\ returned' = ClusterHostStateDict(ch)
    /\ err' = "none"
    /\ UNCHANGED <<clusterhosts, hostState, clusterhostState, clusterState,
                   reinstall_os, host_config_validated, clusterhost_config_validated,
                   reinstall_distributed_system, cluster_config_validated,
                   distributed_system>>
    /\ UNCHANGED recVars
    /\ UNCHANGED configVars
    /\ UNCHANGED stack

---------------------------------------------------------------------------
\* HostState.update and ClusterHostState.update executed call by call.  A
\* frame is one call in progress; the head of `stack` is the call that is
\* running.  An exception leaves every frame at once (no method of the
\* module catches one).

MaxDepth == 3

Frame(m, c, h) == [m |-> m, c |-> c, h |-> h, pc |-> 0, branch |-> ""]

\* the strs that the loop of HostState.update compares clusterhost.state
\* with, by the branch taken
LoopFrom(branch) ==
    IF branch = "INSTALLING" THEN {"SUCCESSFUL", "ERROR"}
    ELSE IF branch = "UNINITIALIZED"
         THEN {"INITIALIZED", "INSTALLING", "SUCCESSFUL", "ERROR"}
         ELSE IF branch = "INITIALIZED"
              THEN {"INSTALLING", "SUCCESSFUL", "ERROR"}
              ELSE {}

\* One step of a HostState.update call: pc 0 picks the branch (and clears
\* reinstall_os in the INSTALLING branch), pc i looks at the i-th membership,
\* the last pc runs StateMixin.update and returns.
StepHostStateUpdate(w, f, rest) ==
    LET h == f.h
        self == w.hs[h]
        seq == HostClusterhosts(h)
    IN  IF f.pc = 0
        THEN [w |-> IF self.state = "INSTALLING"
                    THEN [w EXCEPT !.ros[h] = FALSE] ELSE w,
              stack |-> <<[f EXCEPT !.branch = self.state,
                                    !.pc = IF LoopFrom(self.state) # {}
                                           THEN 1 ELSE Len(seq) + 1]>> \o rest]
        ELSE IF f.pc <= Len(seq)
             THEN IF PyIn(PyRow("ClusterHostState", seq[f.pc]), LoopFrom(f.branch))
                  THEN [w |-> Raise(w, "AttributeError"), stack |-> <<>>]
                  ELSE [w |-> w, stack |-> <<[f EXCEPT !.pc = @ + 1]>> \o rest]
             ELSE [w |-> [w EXCEPT !.hs[h] = StateMixinUpdate(@)], stack |-> rest]

\* mutant: host_state.update() is called for every INITIALIZED or
\* INSTALLING membership, without looking at host_state.state
ClusterHostStateCallsUpdate_Unguarded(w, ch) ==
    w.chs[ch].state \in {"INITIALIZED", "INSTALLING"}

\* whether ClusterHostState.update calls host_state.update(); host_state is
\* self.host.state, the membership's own state row
ClusterHostStateCallsUpdate(w, ch) ==
    LET self == w.chs[ch]
        host_state == w.chs[ch]
    IN  IF self.state = "INITIALIZED"
        THEN host_state.state \in {"UNINITIALIZED"}
        ELSE IF self.state = "INSTALLING"
             THEN host_state.state \in {"UNINITIALIZED", "INITIALIZED"}
             ELSE FALSE

\* One step of a ClusterHostState.update call: pc 0 tests the promotion and,
\* when it is due, assigns host_state.state and calls host_state.update();
\* pc 1 runs StateMixin.update and returns.
StepClusterHostStateUpdate(w, f, rest) ==
    LET ch == <<f.c, f.h>>
        self == w.chs[ch]
    IN  IF f.pc = 0
        THEN IF ClusterHostStateCallsUpdate(w, ch)
             THEN [w |-> [w EXCEPT !.chs[ch].state = self.state],
                   stack |-> <<Frame("ClusterHostState.update", f.c, f.h),
                               [f EXCEPT !.pc = 1]>> \o rest]
             ELSE [w |-> w, stack |-> <<[f EXCEPT !.pc = 1]>> \o rest]
        ELSE [w |-> [w EXCEPT !.chs[ch] = StateMixinUpdate(@)], stack |-> rest]

\* host.state.update() is called
CallHostStateUpdate(h) ==
    /\ op' = Op("HostState.update", 0, h)
    /\ stack = <<>>
    /\ stack' = <<Frame("HostState.update", 0, h)>>
    /\ err' = "none"
    /\ UNCHANGED <<clusterhosts, hostState, clusterhostState, clusterState,
                   reinstall_os, host_config_validated, clusterhost_config_validated,
                   reinstall_distributed_system, cluster_config_validated,
                   distributed_system>>
    /\ UNCHANGED recVars
    /\ UNCHANGED configVars
    /\ UNCHANGED returned

\* clusterhost.state.update() is called
CallClusterHostStateUpdate(ch) ==
    /\ op' = Op("ClusterHostState.update", ch[1], ch[2])
    /\ ch \in clusterhosts
    /\ stack = <<>>
    /\ stack' = <<Frame("ClusterHostState.update", ch[1], ch[2])>>
    /\ err' = "none"
    /\ UNCHANGED <<clusterhosts, hostState, clusterhostState, clusterState,
                   reinstall_os, host_config_validated, clusterhost_config_validated,
                   reinstall_distributed_system, cluster_config_validated,
                   distributed_system>>
    /\ UNCHANGED recVars
    /\ UNCHANGED configVars
    /\ UNCHANGED returned

\* the running call takes its next step
Step ==
    /\ stack # <<>>
    /\ LET f == Head(stack)
           r == IF f.m = "HostState.update"
                THEN StepHostStateUpdate(World, f, Tail(stack))
                ELSE StepClusterHostStateUpdate(World, f, Tail(stack))
       IN  /\ Len(r.stack) <= MaxDepth
           /\ Commit(r.w, op)
           /\ stack' = r.stack
    /\ UNCHANGED <<clusterhosts, host_config_validated, clusterhost_config_validated,
                   cluster_config_validated, distributed_system>>
    /\ UNCHANGED recVars
    /\ UNCHANGED configVars
    /\ UNCHANGED returned

---------------------------------------------------------------------------
\* The detached record: update() called on it, up to MaxCalls times

Percentages == {<<-1, 2>>, Zero, Half, One, <<3, 2>>}
Messages == {"", "installing"}

CallUpdate ==
    /\ calls < MaxCalls
    /\ rec' = StateMixinUpdate(rec)
    /\ first' = IF calls = 0 THEN StateMixinUpdate(rec) ELSE first
    /\ calls' = calls + 1
    /\ UNCHANGED input
    /\ UNCHANGED callVars
    /\ UNCHANGED graphVars
    /\ UNCHANGED configVars

---------------------------------------------------------------------------
\* Specifications

\* the entity graph as created: every row at its column defaults
GraphInit ==
    /\ clusterhosts = {}
    /\ hostState = [h \in Hosts |-> DefaultState]
    /\ clusterhostState = <<>>
    /\ clusterState = [c \in Clusters |-> DefaultClusterState]
    /\ reinstall_os = [h \in Hosts |-> TRUE]
    /\ host_config_validated = [h \in Hosts |-> FALSE]
    /\ clusterhost_config_validated = <<>>
    /\ reinstall_distributed_system = [c \in Clusters |-> TRUE]
    /\ cluster_config_validated = [c \in Clusters |-> FALSE]
    /\ op = Op("init", 0, 0)
    /\ err = "none"

\* the config columns at their defaults
ConfigInit ==
    /\ host_os_config = [h \in Hosts |-> EmptyBlob]
    /\ clusterhost_package_config = <<>>
    /\ cluster_os_config = [c \in Clusters |-> EmptyBlob]
    /\ cluster_package_config = [c \in Clusters |-> EmptyBlob]

\* no query answered yet, no update() in progress
CallsIdle ==
    /\ returned = NoDict
    /\ stack = <<>>

RecIdle ==
    /\ input = DefaultState
    /\ rec = DefaultState
    /\ first = DefaultState
    /\ calls = 0

\* the host whose memberships Spec follows, and the cluster whose
\* aggregation SpecCluster follows (hosts do not read each other's rows, nor
\* do clusters)
TheHost == CHOOSE h \in Hosts : \A g \in Hosts : h <= g
TheCluster == CHOOSE c \in Clusters : \A d \in Clusters : c <= d

\* Spec: one host and its memberships in every cluster
Init ==
    /\ GraphInit
    /\ distributed_system = [c \in Clusters |-> TRUE]
    /\ cluster_os = [c \in Clusters |-> TRUE]
    /\ ConfigInit
    /\ CallsIdle
    /\ RecIdle

Next ==
    \/ \E c \in Clusters : AddClusterHost(c, TheHost)
    \/ \E s \in States : SetHostState(TheHost, s)
    \/ \E rep \in Reports : ReportHostProgress(TheHost, rep)
    \/ \E ch \in clusterhosts, s \in States : SetClusterHostState(ch, s)
    \/ \E ch \in clusterhosts, rep \in Reports : ReportClusterHostProgress(ch, rep)
    \/ RequestReinstallHost(TheHost)
    \/ UpdateHost(TheHost)
    \/ \E ch \in clusterhosts : UpdateClusterHost(ch)
    \/ MarkHostValidated(TheHost)

Spec == Init /\ [][Next]_vars

\* SpecCluster: one cluster, with or without a distributed system, and the
\* memberships of every host in it.  The states that the aggregation reads
\* are varied: the memberships' own when the cluster has a distributed
\* system, their hosts' when it has none.
InitCluster ==
    /\ GraphInit
    /\ distributed_system \in [Clusters -> BOOLEAN]
    /\ \A c \in Clusters : c # TheCluster => distributed_system[c]
    /\ cluster_os = [c \in Clusters |-> TRUE]
    /\ ConfigInit
    /\ CallsIdle
    /\ RecIdle

NextCluster ==
    \/ \E h \in Hosts : AddClusterHost(TheCluster, h)
    \/ \E h \in Hosts, s \in States :
           /\ ~distributed_system[TheCluster]
           /\ <<TheCluster, h>> \in clusterhosts
           /\ SetHostState(h, s)
    \/ \E ch \in clusterhosts, s \in States :
           distributed_system[TheCluster] /\ SetClusterHostState(ch, s)
    \/ \E s \in States : SetClusterState(TheCluster, s)
    \/ \E rep \in Reports : ReportClusterProgress(TheCluster, rep)
    \/ RequestReinstallCluster(TheCluster)
    \/ UpdateCluster(TheCluster)
    \/ MarkClusterValidated(TheCluster)

SpecCluster == InitCluster /\ [][NextCluster]_vars

\* SpecMember: one membership of one host, with its config_validated flag
\* and the host's reinstall_os flag varied
InitMember ==
    /\ GraphInit
    /\ distributed_system = [c \in Clusters |-> TRUE]
    /\ cluster_os = [c \in Clusters |-> TRUE]
    /\ ConfigInit
    /\ CallsIdle
    /\ RecIdle

NextMember ==
    \/ AddClusterHost(TheCluster, TheHost)
    \/ \E s \in States : SetHostState(TheHost, s)
    \/ \E rep \in Reports : ReportHostProgress(TheHost, rep)
    \/ \E ch \in clusterhosts, s \in States : SetClusterHostState(ch, s)
    \/ \E ch \in clusterhosts, rep \in Reports : ReportClusterHostProgress(ch, rep)
    \/ RequestReinstallHost(TheHost)
    \/ UpdateHost(TheHost)
    \/ \E ch \in clusterhosts : UpdateClusterHost(ch)
    \/ \E ch \in clusterhosts : MarkClusterHostValidated(ch)

SpecMember == InitMember /\ [][NextMember]_vars

\* the mappings a config write may supply
P0 == EmptyBlob
P1 == [k \in {"a"} |-> Node([j \in {"x"} |-> Leaf(1)])]
P2 == [k \in {"a"} |-> Node([j \in {"y"} |-> Leaf(2)])]
P3 == [k \in {"b"} |-> Leaf(1)]
P4 == [k \in {"a"} |-> Leaf(1)]
ConfigValues == {P0, P1, P2, P3, P4}

\* SpecConfig: the config blobs and config_validated flags of one host, one
\* membership and one cluster, under every config write, mark_validated,
\* initialization and update()
InitConfig ==
    /\ GraphInit
    /\ distributed_system \in [Clusters -> BOOLEAN]
    /\ \A c \in Clusters : c # TheCluster => distributed_system[c]
    /\ cluster_os \in [Clusters -> BOOLEAN]
    /\ \A c \in Clusters : c # TheCluster => cluster_os[c]
    /\ ConfigInit
    /\ CallsIdle
    /\ RecIdle

NextConfig ==
    \/ AddClusterHost(TheCluster, TheHost)
    \/ \E v \in ConfigValues : PatchHostOsConfig(TheHost, v)
    \/ \E v \in ConfigValues : PutHostOsConfig(TheHost, v)
    \/ \E ch \in clusterhosts, v \in {P1} : PatchClusterHostOsConfig(ch, v)
    \/ \E ch \in clusterhosts, v \in {P1} : PutClusterHostOsConfig(ch, v)
    \/ \E ch \in clusterhosts, v \in {P0, P1} : PatchClusterHostPackageConfig(ch, v)
    \/ \E ch \in clusterhosts, v \in {P0, P1} : PutClusterHostPackageConfig(ch, v)
    \/ \E v \in {P1} : PatchClusterOsConfig(TheCluster, v)
    \/ \E v \in {P1} : PutClusterOsConfig(TheCluster, v)
    \/ \E v \in {P1} : PatchClusterPackageConfig(TheCluster, v)
    \/ \E v \in {P1} : PutClusterPackageConfig(TheCluster, v)
    \/ \E adapter \in BOOLEAN : InitializeCluster(TheCluster, adapter)
    \/ MarkHostValidated(TheHost)
    \/ \E ch \in clusterhosts : MarkClusterHostValidated(ch)
    \/ MarkClusterValidated(TheCluster)
    \/ UpdateHost(TheHost)
    \/ \E ch \in clusterhosts : UpdateClusterHost(ch)
    \/ UpdateCluster(TheCluster)
    \/ RequestReinstallHost(TheHost)
    \/ RequestReinstallCluster(TheCluster)

SpecConfig == InitConfig /\ [][NextConfig]_vars

\* SpecCascade: one host with a membership in every cluster, the rows in any
\* combination of states, as callers may have assigned them; update() is
\* called on any of the rows and runs call by call.  A call that has
\* started keeps running: the methods are synchronous and nothing suspends
\* them.
StartHostStates ==
    [state : States, percentage : {Zero, One}, message : {""},
     severity : {"INFO"}]

StartClusterHostStates ==
    [state : States, percentage : {Half}, message : {"installing"},
     severity : {"INFO"}]

AnyRows ==
    /\ clusterhosts = {<<c, TheHost>> : c \in Clusters}
    /\ hostState \in [Hosts -> StartHostStates]
    /\ \A h \in Hosts : h # TheHost => hostState[h] = DefaultState
    /\ clusterhostState \in [clusterhosts -> StartClusterHostStates]
    /\ clusterState = [c \in Clusters |-> DefaultClusterState]
    /\ reinstall_os = [h \in Hosts |-> TRUE]
    /\ host_config_validated = [h \in Hosts |-> FALSE]
    /\ clusterhost_config_validated = [ch \in clusterhosts |-> FALSE]
    /\ reinstall_distributed_system = [c \in Clusters |-> TRUE]
    /\ cluster_config_validated = [c \in Clusters |-> FALSE]
    /\ cluster_os = [c \in Clusters |-> TRUE]
    /\ host_os_config = [h \in Hosts |-> EmptyBlob]
    /\ clusterhost_package_config = [ch \in clusterhosts |-> EmptyBlob]
    /\ cluster_os_config = [c \in Clusters |-> EmptyBlob]
    /\ cluster_package_config = [c \in Clusters |-> EmptyBlob]
    /\ op = Op("init", 0, 0)
    /\ err = "none"
    /\ CallsIdle
    /\ RecIdle

InitCascade ==
    /\ AnyRows
    /\ distributed_system = [c \in Clusters |-> TRUE]

NextCascade ==
    \/ CallHostStateUpdate(TheHost)
    \/ \E ch \in clusterhosts : CallClusterHostStateUpdate(ch)
    \/ Step

SpecCascade == InitCascade /\ [][NextCascade]_vars /\ WF_vars(Step)

\* SpecView: the same rows in a cluster with or without a distributed
\* system, and the state of a membership queried
InitView ==
    /\ AnyRows
    /\ distributed_system \in [Clusters -> BOOLEAN]
    /\ \A c \in Clusters : c # TheCluster => distributed_system[c]

NextView == \E ch \in clusterhosts : GetClusterHostState(ch)

SpecView == InitView /\ [][NextView]_vars

\* SpecRec: StateMixin.update on a record with any combination of fields
InitRec ==
    /\ input \in [state : States, percentage : Percentages,
                  message : Messages, severity : Severities]
    /\ rec = input
    /\ first = input
    /\ calls = 0
    /\ GraphInit
    /\ distributed_system = [c \in Clusters |-> TRUE]
    /\ cluster_os = [c \in Clusters |-> TRUE]
    /\ ConfigInit
    /\ CallsIdle

NextRec == CallUpdate

SpecRec == InitRec /\ [][NextRec]_vars

---------------------------------------------------------------------------
\* Properties

\* every state record of the graph
AllStateRecords ==
    {hostState[h] : h \in Hosts} \cup {clusterState[c] : c \in Clusters}
        \cup {clusterhostState[ch] : ch \in clusterhosts}

\* C1: in every reachable state every state record of a Host, a ClusterHost
\* and a Cluster has 0.0 <= percentage <= 1.0.
C1_PercentageInUnitRange ==
    \A r \in AllStateRecords : InUnitRange(r.percentage)

\* C2: once update() has completed on a record, state SUCCESSFUL implies
\* percentage 1.0.
C2_SuccessfulIsComplete ==
    (calls >= 1 /\ rec.state = "SUCCESSFUL") => rec.percentage = One

C2_Witness ==
    /\ calls >= 1
    /\ input.state = "SUCCESSFUL"
    /\ input.percentage = Half
    /\ rec.state = "SUCCESSFUL"
    /\ rec.percentage = One

\* C3: once update() has completed on a record, state UNINITIALIZED or
\* INITIALIZED implies percentage 0.0, severity INFO and an empty message.
C3_ResetStatesAreBlank ==
    (calls >= 1 /\ rec.state \in {"UNINITIALIZED", "INITIALIZED"})
        => (rec.percentage = Zero /\ rec.severity = "INFO" /\ rec.message = "")

C3_Witness ==
    /\ calls >= 1
    /\ input.state = "INITIALIZED"
    /\ input.percentage = Half
    /\ input.severity = "ERROR"
    /\ input.message = "installing"
    /\ rec = [state |-> "INITIALIZED", percentage |-> Zero, message |-> "",
              severity |-> "INFO"]

\* C4: update() on an INSTALLING record whose severity is ERROR sets the
\* state to ERROR whatever the percentage; the record never becomes
\* SUCCESSFUL.
C4_ErrorSeverityWins ==
    (calls >= 1 /\ input.state = "INSTALLING" /\ input.severity = "ERROR")
        => (first.state = "ERROR" /\ rec.state = "ERROR")

C4_Witness ==
    /\ calls >= 1
    /\ input.state = "INSTALLING"
    /\ input.severity = "ERROR"
    /\ GeqOne(input.percentage)
    /\ rec.state = "ERROR"

\* C5: update() on an INSTALLING record whose severity is not ERROR makes it
\* SUCCESSFUL with percentage 1.0 when percentage >= 1.0, and leaves state
\* and percentage as they were when percentage < 1.0.
C5_InstallingCompletes ==
    (calls >= 1 /\ input.state = "INSTALLING" /\ input.severity # "ERROR")
        => IF GeqOne(input.percentage)
           THEN first.state = "SUCCESSFUL" /\ first.percentage = One
           ELSE first.state = "INSTALLING" /\ first.percentage = input.percentage

C5_Witness ==
    /\ calls >= 1
    /\ input.state = "INSTALLING"
    /\ input.severity = "WARNING"
    /\ input.percentage = One
    /\ first.state = "SUCCESSFUL"

\* C6: update() never changes the state of a record that is ERROR,
\* SUCCESSFUL, UNINITIALIZED or INITIALIZED, and takes an INSTALLING record
\* only to ERROR or SUCCESSFUL (or leaves it INSTALLING).
C6_OnlyInstallingMoves ==
    [][ /\ rec.state # "INSTALLING" => rec'.state = rec.state
        /\ rec.state = "INSTALLING" =>
               rec'.state \in {"INSTALLING", "ERROR", "SUCCESSFUL"} ]_vars

C6_Witness ==
    /\ calls >= 1
    /\ input.state = "ERROR"
    /\ input.severity = "INFO"
    /\ input.percentage = One
    /\ rec.state = "ERROR"

\* C7: a second update() with no mutation in between leaves state,
\* percentage, severity and message as the first call left them.
C7_UpdateIdempotent ==
    calls >= 2 => rec = first

C7_Witness ==
    /\ calls = 2
    /\ input.state = "INSTALLING"
    /\ input.percentage = <<3, 2>>
    /\ first.state = "SUCCESSFUL"
    /\ first # input
    /\ rec = first

\* C8: Host.update() on a Host with reinstall_os set and state SUCCESSFUL or
\* ERROR sets the state to INITIALIZED when config_validated, else to
\* UNINITIALIZED; otherwise it leaves the state unchanged.
C8_HostUpdateGating ==
    [][ \A h \in Hosts :
          (RequestReinstallHost(h) \/ UpdateHost(h)) =>
             LET reinstall == IF op'.name = "RequestReinstallHost"
                              THEN TRUE ELSE reinstall_os[h]
             IN  IF reinstall /\ hostState[h].state \in {"SUCCESSFUL", "ERROR"}
                 THEN hostState'[h].state =
                          IF host_config_validated[h] THEN "INITIALIZED"
                                                      ELSE "UNINITIALIZED"
                 ELSE hostState'[h].state = hostState[h].state ]_vars

\* HostState.update() runs on host h with the host's state equal to s
HostStateUpdateRuns(h, s) ==
    \/ SetHostState(h, s)
    \/ hostState[h].state = s /\ \E rep \in Reports : ReportHostProgress(h, rep)

\* C9: when HostState.update() runs with the Host UNINITIALIZED, every
\* membership of the Host that was INITIALIZED, INSTALLING, SUCCESSFUL or
\* ERROR is UNINITIALIZED afterwards.
C9_UninitializedCascade ==
    [][ \A h \in Hosts :
          HostStateUpdateRuns(h, "UNINITIALIZED") =>
             \A ch \in clusterhosts :
                (ch[2] = h /\ clusterhostState[ch].state \in
                    {"INITIALIZED", "INSTALLING", "SUCCESSFUL", "ERROR"})
                   => clusterhostState'[ch].state = "UNINITIALIZED" ]_vars

\* C10: when HostState.update() runs with the Host INSTALLING, every
\* membership of the Host that was SUCCESSFUL or ERROR is INSTALLING
\* afterwards, and the other memberships are unchanged.
C10_InstallingCascade ==
    [][ \A h \in Hosts :
          HostStateUpdateRuns(h, "INSTALLING") =>
             \A ch \in clusterhosts :
                ch[2] = h =>
                   IF clusterhostState[ch].state \in {"SUCCESSFUL", "ERROR"}
                   THEN clusterhostState'[ch].state = "INSTALLING"
                   ELSE clusterhostState'[ch] = clusterhostState[ch] ]_vars

\* C11: when HostState.update() runs with the Host INITIALIZED, every
\* membership of the Host that was INSTALLING, SUCCESSFUL or ERROR is
\* INITIALIZED afterwards, and memberships that were UNINITIALIZED or
\* INITIALIZED are unchanged.
C11_InitializedCascade ==
    [][ \A h \in Hosts :
          HostStateUpdateRuns(h, "INITIALIZED") =>
             \A ch \in clusterhosts :
                ch[2] = h =>
                   IF clusterhostState[ch].state \in {"INSTALLING", "SUCCESSFUL", "ERROR"}
                   THEN clusterhostState'[ch].state = "INITIALIZED"
                   ELSE clusterhostState'[ch] = clusterhostState[ch] ]_vars

\* C12: when a membership's state becomes INSTALLING and
\* ClusterHostState.update() runs while the owning Host is UNINITIALIZED or
\* INITIALIZED, the Host is INSTALLING afterwards.
C12_PromoteToInstalling ==
    [][ \A ch \in clusterhosts :
          (/\ hostState[ch[2]].state \in {"UNINITIALIZED", "INITIALIZED"}
           /\ SetClusterHostState(ch, "INSTALLING"))
             => hostState'[ch[2]].state = "INSTALLING" ]_vars

\* C13: when a membership's state becomes INITIALIZED and
\* ClusterHostState.update() runs while the owning Host is UNINITIALIZED,
\* the Host is INITIALIZED afterwards; a Host in any other state keeps its
\* state.
C13_PromoteToInitialized ==
    [][ \A ch \in clusterhosts :
          SetClusterHostState(ch, "INITIALIZED") =>
             IF hostState[ch[2]].state = "UNINITIALIZED"
             THEN hostState'[ch[2]].state = "INITIALIZED"
             ELSE hostState'[ch[2]].state = hostState[ch[2]].state ]_vars

\* ClusterHostState.update() or ClusterHost.update() runs on membership ch
\* with the membership's state equal to s
MembershipUpdateRuns(ch, s) ==
    \/ SetClusterHostState(ch, s)
    \/ clusterhostState[ch].state = s
           /\ \E rep \in Reports : ReportClusterHostProgress(ch, rep)
    \/ clusterhostState[ch].state = s /\ UpdateClusterHost(ch)

\* C14: ClusterHostState.update() and ClusterHost.update() leave the owning
\* Host's state, percentage, severity and message unchanged whenever the
\* membership's state is UNINITIALIZED, SUCCESSFUL or ERROR, and whenever
\* the Host is already INSTALLING, SUCCESSFUL or ERROR.
C14_NoOtherUpwardChange ==
    [][ \A ch \in clusterhosts, s \in States :
          (/\ \/ s \in {"UNINITIALIZED", "SUCCESSFUL", "ERROR"}
              \/ hostState[ch[2]].state \in {"INSTALLING", "SUCCESSFUL", "ERROR"}
           /\ MembershipUpdateRuns(ch, s))
             => hostState'[ch[2]] = hostState[ch[2]] ]_vars

\* a membership was just set to INSTALLING under a Host that had finished
\* with an error, and the Host's record is as the failure report left it
C14_Witness ==
    /\ op.name = "SetClusterHostState"
    /\ err = "none"
    /\ <<op.cluster, op.host>> \in clusterhosts
    /\ clusterhostState[<<op.cluster, op.host>>].state = "INSTALLING"
    /\ hostState[op.host] =
           [state |-> "ERROR", percentage |-> Half, message |-> "failed",
            severity |-> "ERROR"]

\* C15: ClusterHost.update() on a membership whose Host has reinstall_os set
\* leaves the membership's state, percentage, severity and message as they
\* were, whatever the membership's state and config_validated flag.
C15_NoActionWhileHostReinstalls ==
    [][ \A ch \in clusterhosts :
          (reinstall_os[ch[2]] /\ UpdateClusterHost(ch))
             => clusterhostState'[ch] = clusterhostState[ch] ]_vars

\* ClusterHost.update() has just run on a validated, SUCCESSFUL membership
\* whose Host has reinstall_os set
C15_Witness ==
    /\ op.name = "UpdateClusterHost"
    /\ err = "none"
    /\ <<op.cluster, op.host>> \in clusterhosts
    /\ reinstall_os[op.host]
    /\ clusterhost_config_validated[<<op.cluster, op.host>>]
    /\ clusterhostState[<<op.cluster, op.host>>].state = "SUCCESSFUL"

\* C16: Cluster.update() on a Cluster with reinstall_distributed_system set
\* and state SUCCESSFUL or ERROR sets the state to INITIALIZED when
\* config_validated, else to UNINITIALIZED; otherwise it leaves the state
\* unchanged.
C16_ClusterUpdateGating ==
    [][ \A c \in Clusters :
          RequestReinstallCluster(c) =>
             IF clusterState[c].state \in {"SUCCESSFUL", "ERROR"}
             THEN clusterState'[c].state =
                      IF cluster_config_validated[c] THEN "INITIALIZED"
                                                     ELSE "UNINITIALIZED"
             ELSE clusterState'[c].state = clusterState[c].state ]_vars

\* ClusterState.update() runs on cluster c with the cluster's state equal to s
ClusterStateUpdateRuns(c, s) ==
    \/ SetClusterState(c, s)
    \/ clusterState[c].state = s /\ \E rep \in Reports : ReportClusterProgress(c, rep)

\* the number of memberships of cluster c classified s: by the membership's
\* own state when the cluster has a distributed system, by its Host's state
\* when it has none
Classified(c, s) ==
    Cardinality({ch \in clusterhosts :
        /\ ch[1] = c
        /\ s = IF distributed_system[c] THEN clusterhostState[ch].state
                                        ELSE hostState[ch[2]].state})

\* C17: after ClusterState.update() on an INSTALLING cluster, total_hosts is
\* the number of memberships and installing_hosts, failed_hosts and
\* completed_hosts are the numbers of memberships classified INSTALLING,
\* ERROR and SUCCESSFUL.
C17_CountersMatchMemberships ==
    [][ \A c \in Clusters :
          ClusterStateUpdateRuns(c, "INSTALLING") =>
             /\ clusterState'[c].total_hosts =
                    Cardinality({ch \in clusterhosts : ch[1] = c})
             /\ clusterState'[c].installing_hosts = Classified(c, "INSTALLING")
             /\ clusterState'[c].failed_hosts = Classified(c, "ERROR")
             /\ clusterState'[c].completed_hosts = Classified(c, "SUCCESSFUL") ]_vars

\* C18: ClusterState.update() on an INSTALLING cluster never raises, and
\* leaves percentage = completed_hosts / total_hosts when total_hosts > 0
\* and 0.0 when the cluster has no membership.
C18_PercentageIsRatio ==
    [][ \A c \in Clusters :
          ClusterStateUpdateRuns(c, "INSTALLING") =>
             /\ err' = "none"
             /\ clusterState'[c].percentage =
                    IF clusterState'[c].total_hosts > 0
                    THEN Frac(clusterState'[c].completed_hosts,
                              clusterState'[c].total_hosts)
                    ELSE Zero ]_vars

\* C19: after ClusterState.update() on an INSTALLING cluster with at least
\* one membership classified ERROR, the cluster's severity is ERROR and its
\* state is ERROR.
C19_FailedMemberFailsCluster ==
    [][ \A c \in Clusters :
          (Classified(c, "ERROR") > 0 /\ ClusterStateUpdateRuns(c, "INSTALLING"))
             => /\ clusterState'[c].severity = "ERROR"
                /\ clusterState'[c].state = "ERROR" ]_vars

\* C20: a second ClusterState.update() on an INSTALLING cluster, with no
\* mutation since the first, leaves the counters, percentage, severity and
\* state as the first call left them.
C20_ClusterUpdateIdempotent ==
    [][ \A c \in Clusters :
          (/\ op.name \in {"SetClusterState", "ReportClusterProgress"}
           /\ op.cluster = c
           /\ clusterState[c].state = "INSTALLING"
           /\ SetClusterState(c, "INSTALLING"))
             => /\ clusterState'[c].total_hosts = clusterState[c].total_hosts
                /\ clusterState'[c].installing_hosts = clusterState[c].installing_hosts
                /\ clusterState'[c].completed_hosts = clusterState[c].completed_hosts
                /\ clusterState'[c].failed_hosts = clusterState[c].failed_hosts
                /\ clusterState'[c].percentage = clusterState[c].percentage
                /\ clusterState'[c].severity = clusterState[c].severity
                /\ clusterState'[c].state = clusterState[c].state ]_vars

\* C21: after ClusterState.update() on a cluster in state UNINITIALIZED or
\* INITIALIZED, installing_hosts, completed_hosts and failed_hosts are 0 and
\* total_hosts is the number of memberships.
C21_CountersResetBeforeInstall ==
    [][ \A c \in Clusters, s \in {"UNINITIALIZED", "INITIALIZED"} :
          ClusterStateUpdateRuns(c, s) =>
             /\ clusterState'[c].installing_hosts = 0
             /\ clusterState'[c].completed_hosts = 0
             /\ clusterState'[c].failed_hosts = 0
             /\ clusterState'[c].total_hosts =
                    Cardinality({ch \in clusterhosts : ch[1] = c}) ]_vars

\* the cluster was just set to INITIALIZED while it has a membership that
\* an INSTALLING update would count
C21_Witness ==
    /\ op = Op("SetClusterState", TheCluster, 0)
    /\ err = "none"
    /\ clusterState[TheCluster].state = "INITIALIZED"
    /\ clusterState[TheCluster].total_hosts = 1
    /\ clusterState[TheCluster].completed_hosts = 0
    /\ Classified(TheCluster, "SUCCESSFUL") = 1

\* C22: ClusterState.update() on an INSTALLING cluster clears
\* reinstall_distributed_system; the flag is set again only by a reinstall
\* request, and while it is clear Cluster.update() leaves the cluster's
\* state record as it is.
C22_InstallClearsReinstallFlag ==
    [][ \A c \in Clusters :
          /\ ClusterStateUpdateRuns(c, "INSTALLING")
                 => ~reinstall_distributed_system'[c]
          /\ (~reinstall_distributed_system[c] /\ reinstall_distributed_system'[c])
                 => op'.name = "RequestReinstallCluster"
          /\ (~reinstall_distributed_system[c] /\ UpdateCluster(c))
                 => clusterState'[c] = clusterState[c] ]_vars

\* Cluster.update() has just run on a SUCCESSFUL cluster whose flag an
\* earlier INSTALLING update cleared
C22_Witness ==
    /\ op = Op("UpdateCluster", TheCluster, 0)
    /\ ~reinstall_distributed_system[TheCluster]
    /\ clusterState[TheCluster].state = "SUCCESSFUL"

\* C23: in every state left by a complete top-level operation, the counters
\* of every INSTALLING cluster equal the numbers of its memberships now
\* classified SUCCESSFUL, ERROR and INSTALLING.
C23_CountersAgreeWithMemberships ==
    \A c \in Clusters :
        clusterState[c].state = "INSTALLING" =>
            /\ clusterState[c].completed_hosts = Classified(c, "SUCCESSFUL")
            /\ clusterState[c].failed_hosts = Classified(c, "ERROR")
            /\ clusterState[c].installing_hosts = Classified(c, "INSTALLING")

\* new is old with value deep-merged into it, spelled out for the two
\* levels the supplied mappings have: a key absent from value keeps its
\* entry; a key under which both hold a mapping gets the union of the two
\* mappings, value's entries winning; any other key gets value's entry
DeepMerged(old, value, new) ==
    /\ DOMAIN new = DOMAIN old \cup DOMAIN value
    /\ \A k \in DOMAIN new :
          IF k \notin DOMAIN value THEN new[k] = old[k]
          ELSE IF k \in DOMAIN old /\ old[k].isMap /\ value[k].isMap
               THEN /\ new[k].isMap
                    /\ DOMAIN new[k].sub = DOMAIN old[k].sub \cup DOMAIN value[k].sub
                    /\ \A j \in DOMAIN new[k].sub :
                          new[k].sub[j] = IF j \in DOMAIN value[k].sub
                                          THEN value[k].sub[j]
                                          ELSE old[k].sub[j]
               ELSE new[k] = value[k]

\* C24: a patch write deep-merges the supplied mapping into the blob: nested
\* mappings are merged key by key, anything else is overwritten, and keys
\* absent from the patch are preserved at every depth.
C24_PatchDeepMerges ==
    [][ \A v \in ConfigValues :
          /\ \A h \in Hosts :
                PatchHostOsConfig(h, v) =>
                   DeepMerged(host_os_config[h], v, host_os_config'[h])
          /\ \A ch \in clusterhosts :
                /\ PatchClusterHostOsConfig(ch, v) =>
                       DeepMerged(host_os_config[ch[2]], v, host_os_config'[ch[2]])
                /\ PatchClusterHostPackageConfig(ch, v) =>
                       DeepMerged(clusterhost_package_config[ch], v,
                                  clusterhost_package_config'[ch])
          /\ \A c \in Clusters :
                /\ PatchClusterOsConfig(c, v) =>
                       DeepMerged(cluster_os_config[c], v, cluster_os_config'[c])
                /\ PatchClusterPackageConfig(c, v) =>
                       DeepMerged(cluster_package_config[c], v,
                                  cluster_package_config'[c]) ]_vars

\* a patch has left {"a": {"x": 1, "y": 2}, "b": 1}: the two nested
\* mappings merged, the other top-level key kept
C24_Witness ==
    /\ op = Op("PatchHostOsConfig", 0, TheHost)
    /\ DOMAIN host_os_config[TheHost] = {"a", "b"}
    /\ host_os_config[TheHost]["b"] = Leaf(1)
    /\ host_os_config[TheHost]["a"].isMap
    /\ DOMAIN host_os_config[TheHost]["a"].sub = {"x", "y"}
    /\ host_os_config[TheHost]["a"].sub["x"] = Leaf(1)
    /\ host_os_config[TheHost]["a"].sub["y"] = Leaf(2)

\* new is old with the top-level entries of value replacing its own
ShallowPut(old, value, new) ==
    /\ DOMAIN new = DOMAIN old \cup DOMAIN value
    /\ \A k \in DOMAIN new :
          new[k] = IF k \in DOMAIN value THEN value[k] ELSE old[k]

\* C25: a put write replaces the whole value of every top-level key of the
\* supplied mapping (nested mappings are not merged) and keeps every other
\* top-level key.
C25_PutShallowOverwrites ==
    [][ \A v \in ConfigValues :
          /\ \A h \in Hosts :
                PutHostOsConfig(h, v) =>
                   ShallowPut(host_os_config[h], v, host_os_config'[h])
          /\ \A ch \in clusterhosts :
                /\ PutClusterHostOsConfig(ch, v) =>
                       ShallowPut(host_os_config[ch[2]], v, host_os_config'[ch[2]])
                /\ PutClusterHostPackageConfig(ch, v) =>
                       ShallowPut(clusterhost_package_config[ch], v,
                                  clusterhost_package_config'[ch])
          /\ \A c \in Clusters :
                /\ PutClusterOsConfig(c, v) =>
                       ShallowPut(cluster_os_config[c], v, cluster_os_config'[c])
                /\ PutClusterPackageConfig(c, v) =>
                       ShallowPut(cluster_package_config[c], v,
                                  cluster_package_config'[c]) ]_vars

\* a put has left {"a": {"y": 2}, "b": 1}
C25_Witness ==
    /\ op = Op("PutHostOsConfig", 0, TheHost)
    /\ DOMAIN host_os_config[TheHost] = {"a", "b"}
    /\ host_os_config[TheHost]["b"] = Leaf(1)
    /\ host_os_config[TheHost]["a"] = P2["a"]

\* C26: every patch or put write to a config blob leaves config_validated
\* of the entity that owns the blob false, whatever it was before and
\* whether or not the blob's contents changed.
C26_WriteInvalidates ==
    [][ \A v \in ConfigValues :
          /\ \A h \in Hosts :
                (PatchHostOsConfig(h, v) \/ PutHostOsConfig(h, v))
                   => ~host_config_validated'[h]
          /\ \A ch \in clusterhosts :
                /\ (PatchClusterHostOsConfig(ch, v) \/ PutClusterHostOsConfig(ch, v))
                       => ~host_config_validated'[ch[2]]
                /\ (PatchClusterHostPackageConfig(ch, v)
                        \/ PutClusterHostPackageConfig(ch, v))
                       => ~clusterhost_config_validated'[ch]
          /\ \A c \in Clusters :
                (PatchClusterOsConfig(c, v) \/ PutClusterOsConfig(c, v)
                    \/ PatchClusterPackageConfig(c, v) \/ PutClusterPackageConfig(c, v))
                   => ~cluster_config_validated'[c] ]_vars

\* a patch that left the blob empty, hence changed nothing, and the flag is
\* false
C26_Witness ==
    /\ op = Op("PatchHostOsConfig", 0, TheHost)
    /\ host_os_config[TheHost] = EmptyBlob
    /\ ~host_config_validated[TheHost]

\* C27: config_validated goes from false to true only by mark_validated, and
\* a new entity starts with it false.
C27_OnlyMarkValidates ==
    [][ /\ \A h \in Hosts :
             (~host_config_validated[h] /\ host_config_validated'[h])
                => op' = Op("MarkHostValidated", 0, h)
        /\ \A ch \in clusterhosts :
             (~clusterhost_config_validated[ch] /\ clusterhost_config_validated'[ch])
                => op' = Op("MarkClusterHostValidated", ch[1], ch[2])
        /\ \A c \in Clusters :
             (~cluster_config_validated[c] /\ cluster_config_validated'[c])
                => op' = Op("MarkClusterValidated", c, 0)
        /\ \A ch \in clusterhosts' \ clusterhosts :
             ~clusterhost_config_validated'[ch] ]_vars

\* mark_validated has just set the flag of a cluster that was initialized
\* from its adapter
C27_Witness ==
    /\ op = Op("MarkClusterValidated", TheCluster, 0)
    /\ cluster_config_validated[TheCluster]
    /\ "roles" \in DOMAIN cluster_package_config[TheCluster]

\* C28: a write to a membership's package config leaves its Host's
\* config_validated and os_config unchanged, and a write to the Host's
\* os_config, directly or through the membership, leaves the membership's
\* config_validated and package_config unchanged.
C28_MembershipAndHostConfigIndependent ==
    [][ \A v \in ConfigValues :
          /\ \A ch \in clusterhosts :
                /\ (PatchClusterHostPackageConfig(ch, v)
                        \/ PutClusterHostPackageConfig(ch, v))
                       => /\ host_config_validated' = host_config_validated
                          /\ host_os_config' = host_os_config
                /\ (PatchClusterHostOsConfig(ch, v) \/ PutClusterHostOsConfig(ch, v))
                       => /\ clusterhost_config_validated' = clusterhost_config_validated
                          /\ clusterhost_package_config' = clusterhost_package_config
          /\ \A h \in Hosts :
                (PatchHostOsConfig(h, v) \/ PutHostOsConfig(h, v))
                   => /\ clusterhost_config_validated' = clusterhost_config_validated
                      /\ clusterhost_package_config' = clusterhost_package_config ]_vars

\* the membership's package config was just patched, and the Host is still
\* validated with its os_config in place
C28_Witness ==
    /\ op = Op("PatchClusterHostPackageConfig", TheCluster, TheHost)
    /\ host_config_validated[TheHost]
    /\ host_os_config[TheHost] = P1
    /\ ~clusterhost_config_validated[<<TheCluster, TheHost>>]
    /\ clusterhost_package_config[<<TheCluster, TheHost>>] = P1

C32_CascadeTerminates == (stack # <<>>) ~> (stack = <<>>)

\* HostState.update() has returned for an INSTALLING Host that has a
\* SUCCESSFUL and an INSTALLING membership
C32_Witness ==
    /\ stack = <<>>
    /\ op = Op("HostState.update", 0, TheHost)
    /\ err = "none"
    /\ hostState[TheHost].state = "INSTALLING"
    /\ ~reinstall_os[TheHost]
    /\ \E a, b \in clusterhosts :
          /\ clusterhostState[a].state = "SUCCESSFUL"
          /\ clusterhostState[b].state = "INSTALLING"

\* C33: ClusterHost.state_dict returns the membership's own state record
\* when the cluster has a distributed system and the Host's state is
\* SUCCESSFUL, and the Host's state record in every other case.
C33_EffectiveState ==
    [][ \A ch \in clusterhosts :
          GetClusterHostState(ch) =>
             /\ (distributed_system[ch[1]] /\ hostState[ch[2]].state = "SUCCESSFUL")
                    => returned' = ToDict(ClusterHostId(ch), clusterhostState[ch])
             /\ ~distributed_system[ch[1]]
                    => returned' = ToDict(ch[2], hostState[ch[2]])
             /\ hostState[ch[2]].state # "SUCCESSFUL"
                    => returned' = ToDict(ch[2], hostState[ch[2]]) ]_vars

\* the query on a SUCCESSFUL membership of a cluster with a distributed
\* system has just returned the record of the Host, which is still
\* INSTALLING
C33_Witness ==
    /\ op.name = "GetClusterHostState"
    /\ distributed_system[op.cluster]
    /\ clusterhostState[<<op.cluster, op.host>>].state = "SUCCESSFUL"
    /\ hostState[op.host].state = "INSTALLING"
    /\ returned.state = "INSTALLING"
    /\ returned.percentage = Zero

\* no membership is ahead of its Host
NotAhead ==
    \A ch \in clusterhosts :
        /\ hostState[ch[2]].state = "UNINITIALIZED"
               => clusterhostState[ch].state = "UNINITIALIZED"
        /\ hostState[ch[2]].state = "INITIALIZED"
               => clusterhostState[ch].state \in {"UNINITIALIZED", "INITIALIZED"}

\* C34: no complete operation leads from a state in which no membership is
\* ahead of its Host to one in which a membership is, as long as a
\* membership's state is assigned from outside only to INITIALIZED or
\* INSTALLING (the initial state has no membership at all).
C34_MembershipNotAheadOfHost ==
    [][ (/\ NotAhead
         /\ \/ op'.name # "SetClusterHostState"
            \/ \E ch \in clusterhosts, s \in {"INITIALIZED", "INSTALLING"} :
                  SetClusterHostState(ch, s))
           => NotAhead' ]_vars

\* C35: in every reachable state the four counters of every Cluster's state
\* record are >= 0 and installing_hosts + completed_hosts + failed_hosts is
\* at most total_hosts.
C35_CountersWithinTotal ==
    \A c \in Clusters :
        /\ clusterState[c].total_hosts >= 0
        /\ clusterState[c].installing_hosts >= 0
        /\ clusterState[c].completed_hosts >= 0
        /\ clusterState[c].failed_hosts >= 0
        /\ clusterState[c].installing_hosts + clusterState[c].completed_hosts
               + clusterState[c].failed_hosts <= clusterState[c].total_hosts

\* C36: HostState.update() clears the Host's reinstall_os when it runs with
\* the Host INSTALLING and in no other case; nothing but a reinstall request
\* sets the flag again, and while it is clear Host.update() leaves the
\* Host's state record as it is.
C36_InstallClearsReinstallOs ==
    [][ \A h \in Hosts :
          /\ HostStateUpdateRuns(h, "INSTALLING") => ~reinstall_os'[h]
          /\ (reinstall_os[h] /\ ~reinstall_os'[h])
                 => HostStateUpdateRuns(h, "INSTALLING")
          /\ (~reinstall_os[h] /\ reinstall_os'[h])
                 => op'.name = "RequestReinstallHost"
          /\ (~reinstall_os[h] /\ UpdateHost(h))
                 => hostState'[h] = hostState[h] ]_vars

\* Host.update() has just run on a Host that failed after its INSTALLING
\* phase had cleared the flag
C36_Witness ==
    /\ op = Op("UpdateHost", 0, TheHost)
    /\ ~reinstall_os[TheHost]
    /\ hostState[TheHost].state = "ERROR"
    /\ hostState[TheHost].severity = "ERROR"

\* C37: a reinstall request on a Host whose state is ERROR leaves the record
\* INITIALIZED or UNINITIALIZED with severity INFO and percentage 0.0, and
\* when INSTALLING is assigned right after the request (the record being
\* where the request left it, or still ERROR) and update() runs, the record
\* stays INSTALLING.
C37_ReinstallRecovers ==
    [][ \A h \in Hosts :
          /\ (hostState[h].state = "ERROR" /\ RequestReinstallHost(h))
                 => /\ hostState'[h].state \in {"INITIALIZED", "UNINITIALIZED"}
                    /\ hostState'[h].severity = "INFO"
                    /\ hostState'[h].percentage = Zero
          /\ (/\ op = Op("RequestReinstallHost", 0, h)
              /\ hostState[h].state \in {"ERROR", "INITIALIZED", "UNINITIALIZED"}
              /\ SetHostState(h, "INSTALLING"))
                 => hostState'[h].state = "INSTALLING" ]_vars

\* the membership's transition to s is one that promotes a Host in state hs
PromotionDue(s, hs) ==
    \/ s = "INITIALIZED" /\ hs = "UNINITIALIZED"
    \/ s = "INSTALLING" /\ hs \in {"UNINITIALIZED", "INITIALIZED"}

\* the other memberships of ch's Host
Siblings(ch) == {sib \in clusterhosts : sib[2] = ch[2] /\ sib # ch}

C39_ChangedConfigIsUnvalidated ==
    [][ /\ \A h \in Hosts :
              host_os_config'[h] # host_os_config[h]
                 => ~host_config_validated'[h]
        /\ \A ch \in clusterhosts :
              clusterhost_package_config'[ch] # clusterhost_package_config[ch]
                 => ~clusterhost_config_validated'[ch]
        /\ \A c \in Clusters :
              (\/ cluster_os_config'[c] # cluster_os_config[c]
               \/ cluster_package_config'[c] # cluster_package_config[c])
                 => ~cluster_config_validated'[c] ]_vars

====
